---- MODULE Spec2Model ----
(***************************************************************************)
(* Ingestion core of the Siglo Fundos data pipeline:                       *)
(*   data_pipeline/cvm/pipeline.py    month_iterator, CVMPipeline.run      *)
(*   data_pipeline/cvm/inf_mensal.py  build_monthly_urls, parse_inf_mensal *)
(*   data_pipeline/run_pipeline.py    build_curated_tables                 *)
(*                                                                         *)
(* Four specifications share the variables below:                          *)
(*   SpecMonths   the month generator and the URL builder, step by step    *)
(*   SpecParse    the per-URL loop of parse_inf_mensal and its tail        *)
(*   SpecRun      the fund filter of CVMPipeline.run on the parsed tables  *)
(*   SpecCurated  build_curated_tables                                     *)
(***************************************************************************)
EXTENDS Integers, Sequences, FiniteSets, TLC

VARIABLES
    pc,                 \* position of the modelled call
    error,              \* exception that left the modelled call, or "none"
    today,              \* date.today() in CVMPipeline.run
    meses_retroativos,  \* config.meses_retroativos
    gen_year, gen_month, gen_i,   \* locals of the month_iterator generator
    months,             \* list(month_iterator(...))
    mensal_urls,        \* inf_mensal.build_monthly_urls(months)
    url_i,              \* index of the URL the loop of parse_inf_mensal is at
    attempts,           \* what each loop iteration met (history of the loop)
    carteira_frames, cotistas_frames,   \* the two accumulators
    carteira_df, cotistas_df,           \* the tables of the mensal family
    diario_df,          \* the daily quota table
    cnpjs,              \* the monitored identifier set
    facts,              \* the fact tables as CVMPipeline.run rebinds them
    tables,             \* argument of build_curated_tables
    curated             \* its result

vars == <<pc, error, today, meses_retroativos, gen_year, gen_month, gen_i,
          months, mensal_urls, url_i, attempts, carteira_frames,
          cotistas_frames, carteira_df, cotistas_df, diario_df, cnpjs,
          facts, tables, curated>>

monthVars == <<today, meses_retroativos, gen_year, gen_month, gen_i, months,
               mensal_urls>>
parseVars == <<url_i, attempts, carteira_frames, cotistas_frames>>
mensalVars == <<carteira_df, cotistas_df>>
runVars == <<diario_df, cnpjs, facts>>
curatedVars == <<tables, curated>>

(***************************************************************************)
(* Bounds                                                                  *)
(***************************************************************************)
MaxMonths == 4          \* largest window of SpecMonths
MaxUrls == 3            \* longest URL list of SpecParse
MaxFrames == 2          \* most archives behind a table of SpecRun
MaxFactRows == 2        \* most rows of the fact table of SpecCurated

Years == 2023..2024
Days == {1, 31}

(***************************************************************************)
(* Text: a Python str is a sequence of one-character strings.              *)
(***************************************************************************)
DigitChar == <<"0", "1", "2", "3", "4", "5", "6", "7", "8", "9">>

DigitChars == {DigitChar[i] : i \in 1..10}

DigitVal(c) == (CHOOSE i \in 1..10 : DigitChar[i] = c) - 1

RECURSIVE NatOf(_)
NatOf(s) == IF s = <<>> THEN 0
            ELSE 10 * NatOf(SubSeq(s, 1, Len(s) - 1)) + DigitVal(s[Len(s)])

Date(y, m, d) == [year |-> y, month |-> m, day |-> d]

\* month.strftime("%Y%m"): four digits of the year, two of the month
StrftimeYm(d) ==
    << DigitChar[((d.year \div 1000) % 10) + 1],
       DigitChar[((d.year \div 100) % 10) + 1],
       DigitChar[((d.year \div 10) % 10) + 1],
       DigitChar[(d.year % 10) + 1],
       DigitChar[((d.month \div 10) % 10) + 1],
       DigitChar[(d.month % 10) + 1] >>

(***************************************************************************)
(* pipeline.py: month_iterator                                             *)
(***************************************************************************)
\* A wrap that forgets the year.
PrevMonthKeepsYear(year, month) ==
    IF month - 1 = 0 THEN <<year, 12>> ELSE <<year, month - 1>>

\* month -= 1; if month == 0: month = 12; year -= 1
PrevMonth(year, month) ==
    IF month - 1 = 0 THEN <<year - 1, 12>> ELSE <<year, month - 1>>

\* The generator run to its end: list(month_iterator(end, n)).
RECURSIVE MonthsFrom(_, _, _)
MonthsFrom(year, month, n) ==
    IF n <= 0 THEN <<>>
    ELSE <<Date(year, month, 1)>>
         \o MonthsFrom(PrevMonth(year, month)[1], PrevMonth(year, month)[2], n - 1)

month_iterator(end, n) == MonthsFrom(end.year, end.month, n)

(***************************************************************************)
(* inf_mensal.py: build_monthly_urls                                       *)
(***************************************************************************)
BASE_URL == "https://dados.cvm.gov.br/dados/FI/DOC/INF_MENSAL/DADOS"

\* f"{BASE_URL}/inf_mensal_fi_{ym}.zip", kept as its four parts
MonthlyUrl(month) == <<BASE_URL, "/inf_mensal_fi_", StrftimeYm(month), ".zip">>

build_monthly_urls(reference_months) ==
    [i \in 1..Len(reference_months) |-> MonthlyUrl(reference_months[i])]

(***************************************************************************)
(* SpecMonths: CVMPipeline.run, lines 35-38, the generator step by step    *)
(***************************************************************************)
Idle ==
    /\ url_i = 0 /\ attempts = <<>>
    /\ carteira_frames = <<>> /\ cotistas_frames = <<>>
    /\ carteira_df = <<>> /\ cotistas_df = <<>>
    /\ diario_df = <<>> /\ cnpjs = {} /\ facts = <<>>
    /\ tables = <<>> /\ curated = <<>>

InitMonths ==
    /\ pc = "iter"
    /\ error = "none"
    /\ today \in {Date(y, m, d) : y \in Years, m \in 1..12, d \in Days}
    /\ meses_retroativos \in -1..MaxMonths
    /\ gen_year = today.year
    /\ gen_month = today.month
    /\ gen_i = 0
    /\ months = <<>>
    /\ mensal_urls = <<>>
    /\ Idle

\* one pass of "for _ in range(months): yield ...; month -= 1; ..."
MonthIteratorYield ==
    /\ pc = "iter"
    /\ gen_i < meses_retroativos
    /\ months' = Append(months, Date(gen_year, gen_month, 1))
    /\ gen_year' = PrevMonth(gen_year, gen_month)[1]
    /\ gen_month' = PrevMonth(gen_year, gen_month)[2]
    /\ gen_i' = gen_i + 1
    /\ UNCHANGED <<pc, error, today, meses_retroativos, mensal_urls>>
    /\ UNCHANGED <<parseVars, mensalVars, runVars, curatedVars>>

\* range(months) is exhausted: the generator returns, list() has the months
MonthIteratorReturn ==
    /\ pc = "iter"
    /\ gen_i >= meses_retroativos
    /\ pc' = "urls"
    /\ UNCHANGED <<error, monthVars>>
    /\ UNCHANGED <<parseVars, mensalVars, runVars, curatedVars>>

\* mensal_urls = inf_mensal.build_monthly_urls(months)
BuildMonthlyUrls ==
    /\ pc = "urls"
    /\ mensal_urls' = build_monthly_urls(months)
    /\ pc' = "download"
    /\ UNCHANGED <<error, today, meses_retroativos, gen_year, gen_month, gen_i,
                   months>>
    /\ UNCHANGED <<parseVars, mensalVars, runVars, curatedVars>>

NextMonths == MonthIteratorYield \/ MonthIteratorReturn \/ BuildMonthlyUrls

SpecMonths == InitMonths /\ [][NextMonths]_vars

(***************************************************************************)
(* Claims on the month window                                              *)
(***************************************************************************)
MonthIndex(d) == d.year * 12 + (d.month - 1)

\* C4: for a count N >= 1 the generator yields exactly N months with day 1,
\* the first being the reference date's year and month, each next one exactly
\* one calendar month earlier (month 1 followed by month 12 of the previous
\* year), hence all distinct and strictly descending; while it runs, what it
\* has yielded so far is such a prefix; 2024-03 with N = 3 gives 2024-03,
\* 2024-02, 2024-01.
C4_MonthWindow ==
    /\ Len(months) = gen_i
    /\ \A i \in 1..Len(months) :
          /\ months[i].day = 1
          /\ months[i].month \in 1..12
          /\ MonthIndex(months[i]) = MonthIndex(today) - (i - 1)
    /\ \A i, j \in 1..Len(months) :
          i < j => /\ months[i] # months[j]
                   /\ \/ months[i].year > months[j].year
                      \/ /\ months[i].year = months[j].year
                         /\ months[i].month > months[j].month
    /\ (pc # "iter" /\ meses_retroativos >= 1) => Len(months) = meses_retroativos
    /\ (pc # "iter" /\ today.year = 2024 /\ today.month = 3
            /\ meses_retroativos = 3)
          => months = <<Date(2024, 3, 1), Date(2024, 2, 1), Date(2024, 1, 1)>>

\* a window that crosses the year boundary has been generated in full
C4_Witness ==
    /\ pc # "iter"
    /\ meses_retroativos = 3
    /\ today.year = 2024 /\ today.month = 2
    /\ months[3] = Date(2023, 12, 1)

\* C5: with months_back <= 0 the month window generator ends in a
\* configuration error, and so does the run, before any URL is built.
C5_NonPositiveWindowIsConfigurationError ==
    (pc # "iter" /\ meses_retroativos <= 0) => error = "ConfigurationError"

(***************************************************************************)
(* Tables.  A DataFrame is its column names and its rows in order; a row   *)
(* holds one cell per column and, as its identity, the place it was read   *)
(* from: <<index of the URL in the list, position inside the inner file>>. *)
(* A cell is a tagged value: text, NaN, None, NaT, a Timestamp or a number.*)
(***************************************************************************)
Str(s) == [tag |-> "str", val |-> s]
NaN == [tag |-> "NaN", val |-> <<>>]
None == [tag |-> "None", val |-> <<>>]
NaT == [tag |-> "NaT", val |-> <<>>]
Timestamp(y, m, d) == [tag |-> "Timestamp", val |-> <<y, m, d>>]
Num(n) == [tag |-> "num", val |-> n]

\* pd.DataFrame()
EmptyDataFrame == [columns |-> {}, rows |-> <<>>]

\* DataFrame.empty: any axis of length 0
IsEmpty(df) == df.columns = {} \/ df.rows = <<>>

RECURSIVE SelectRows(_, _)
SelectRows(rows, keep) ==
    IF rows = <<>> THEN <<>>
    ELSE (IF keep[1] THEN <<rows[1]>> ELSE <<>>)
         \o SelectRows(Tail(rows), Tail(keep))

Origins(df) == [i \in 1..Len(df.rows) |-> df.rows[i].origin]

(***************************************************************************)
(* inf_mensal.py: the rename maps                                          *)
(***************************************************************************)
CARTEIRA_COLUMNS ==
    [c \in {"CNPJ_FUNDO", "DT_COMPTC", "TP_APLIC", "TP_ATIVO", "EMISSOR",
            "SETOR", "COD_ISIN", "VL_MERC_POS_FINAL", "QT_POS_FINAL"} |->
        CASE c = "CNPJ_FUNDO" -> "cnpj"
          [] c = "DT_COMPTC" -> "data_referencia"
          [] c = "TP_APLIC" -> "tipo_ativo"
          [] c = "TP_ATIVO" -> "subtipo_ativo"
          [] c = "EMISSOR" -> "emissor"
          [] c = "SETOR" -> "setor"
          [] c = "COD_ISIN" -> "isin"
          [] c = "VL_MERC_POS_FINAL" -> "valor_mercado"
          [] c = "QT_POS_FINAL" -> "quantidade"]

COTISTAS_COLUMNS ==
    [c \in {"CNPJ_FUNDO", "DT_COMPTC", "CLASSE_COTISTAS", "QT_COTISTAS",
            "VL_PATRIM_LIQ"} |->
        CASE c = "CNPJ_FUNDO" -> "cnpj"
          [] c = "DT_COMPTC" -> "data_referencia"
          [] c = "CLASSE_COTISTAS" -> "classe_cotistas"
          [] c = "QT_COTISTAS" -> "numero_cotistas"
          [] c = "VL_PATRIM_LIQ" -> "patrimonio_liquido"]

Range(f) == {f[x] : x \in DOMAIN f}

\* DataFrame.rename(columns=mapping): a column that is a key of the mapping
\* takes the mapped name, every other column keeps its own
NewName(mapping, c) == IF c \in DOMAIN mapping THEN mapping[c] ELSE c

Rename(df, mapping) ==
    LET newcols == {NewName(mapping, c) : c \in df.columns}
        old(n) == CHOOSE c \in df.columns : NewName(mapping, c) = n
    IN [columns |-> newcols,
        rows |-> [i \in 1..Len(df.rows) |->
                    [origin |-> df.rows[i].origin,
                     cells |-> [n \in newcols |-> df.rows[i].cells[old(n)]]]]]

(***************************************************************************)
(* The remote archives.  The text of the cells is fixed by the layout of   *)
(* the inner file; which layout an archive has is the environment's choice.*)
(***************************************************************************)
CnpjA == <<"1","1",".","2","2","2",".","3","3","3","/","0","0","0","1","-","8","1">>
CnpjB == <<"2","2","3","3","3","4","4","4","0","0","0","1","9","5">>
CnpjC == <<"3","4","4","4","5","5","5","0","0","0","1","-","0","7">>
DateGood == <<"2","0","2","4","-","0","3","-","3","1">>
DateBad == <<"n","o","t","-","a","-","d","a","t","e">>

CarteiraName == <<"c","a","r","t","e","i","r","a",".","c","s","v">>
CotistasName == <<"c","o","t","i","s","t","a","s",".","c","s","v">>
PatternCarteira == <<"c","a","r","t","e","i","r","a">>
PatternCotist == <<"c","o","t","i","s","t">>

Layouts == {"full2", "header0", "extra1", "nocnpj1"}

\* the layouts the environment of SpecParse chooses from, per kind
CarteiraLayouts == Layouts
CotistasLayouts == {"full2", "nocnpj1"}

\* the kind's own measure column, as the source names it
MeasureColumn(kind) == IF kind = "carteira" THEN "TP_APLIC" ELSE "QT_COTISTAS"

LayoutColumns(kind, layout) ==
    CASE layout = "full2" -> {"CNPJ_FUNDO", "DT_COMPTC", MeasureColumn(kind)}
      [] layout = "header0" -> {"CNPJ_FUNDO", "DT_COMPTC", MeasureColumn(kind)}
      [] layout = "extra1" ->
            {"CNPJ_FUNDO", "DT_COMPTC", MeasureColumn(kind), "DENOM_SOCIAL"}
      [] layout = "nocnpj1" -> {"DT_COMPTC", MeasureColumn(kind)}

LayoutLen(layout) ==
    CASE layout = "full2" -> 2
      [] layout = "header0" -> 0
      [] layout = "extra1" -> 1
      [] layout = "nocnpj1" -> 1

RawCell(layout, p, c) ==
    CASE c = "CNPJ_FUNDO" ->
            Str(IF layout = "extra1" THEN CnpjC
                ELSE IF p = 1 THEN CnpjA ELSE CnpjB)
      [] c = "DT_COMPTC" -> Str(IF p = 1 THEN DateGood ELSE DateBad)
      [] OTHER -> Str(<<"x">>)

\* what pd.read_csv(..., dtype=str) gives for the inner file of URL u
Csv(u, kind, layout) ==
    [columns |-> LayoutColumns(kind, layout),
     rows |-> [p \in 1..LayoutLen(layout) |->
                 [origin |-> <<u, p>>,
                  cells |-> [c \in LayoutColumns(kind, layout) |->
                               RawCell(layout, p, c)]]]]

\* the archive behind URL u: its inner files in listing order
Archive(u, cs, ks) ==
    (IF cs = "absent" THEN <<>>
     ELSE <<[filename |-> CarteiraName, csv |-> Csv(u, "carteira", cs)]>>)
    \o (IF ks = "absent" THEN <<>>
        ELSE <<[filename |-> CotistasName, csv |-> Csv(u, "cotistas", ks)]>>)

(***************************************************************************)
(* inf_mensal.py: load_csv_from_archive                                    *)
(***************************************************************************)
\* pattern in info.filename
Contains(s, p) ==
    \E i \in 0..(Len(s) - Len(p)) : SubSeq(s, i + 1, i + Len(p)) = p

\* the first inner file whose name holds the pattern; ValueError when none
load_csv_from_archive(archive, pattern) ==
    LET inner_files == {i \in 1..Len(archive) :
                            Contains(archive[i].filename, pattern)}
    IN IF inner_files = {} THEN [ok |-> FALSE, df |-> EmptyDataFrame]
       ELSE [ok |-> TRUE,
             df |-> archive[CHOOSE i \in inner_files :
                               \A j \in inner_files : i <= j].csv]

(***************************************************************************)
(* The cell conversions of the normalization pass                          *)
(***************************************************************************)
CnpjDigits == 14

RECURSIVE OnlyDigits(_)
OnlyDigits(s) ==
    IF s = <<>> THEN <<>>
    ELSE (IF s[1] \in DigitChars THEN <<s[1]>> ELSE <<>>) \o OnlyDigits(Tail(s))

RECURSIVE ZFill(_, _)
ZFill(s, n) == IF Len(s) >= n THEN s ELSE ZFill(<<"0">> \o s, n)

\* common/normalization.py: strip what is no digit, left-pad to the fixed
\* length; a value that is no text, holds no digit or too many is None
normalize_cnpj(value) ==
    IF value.tag # "str" THEN None
    ELSE LET digits == OnlyDigits(value.val)
         IN IF digits = <<>> \/ Len(digits) > CnpjDigits THEN None
            ELSE Str(ZFill(digits, CnpjDigits))

IsLeap(y) == (y % 4 = 0 /\ y % 100 # 0) \/ y % 400 = 0

DaysInMonth(y, m) ==
    IF m = 2 THEN (IF IsLeap(y) THEN 29 ELSE 28)
    ELSE IF m \in {4, 6, 9, 11} THEN 30 ELSE 31

\* pd.to_datetime(..., format="%Y-%m-%d", errors="coerce") on one cell:
\* ten characters dddd-dd-dd naming a day of the calendar, or else NaT
ToDatetime(value) ==
    IF value.tag # "str" THEN NaT
    ELSE LET s == value.val
         IN IF /\ Len(s) = 10
               /\ s[5] = "-" /\ s[8] = "-"
               /\ \A i \in {1, 2, 3, 4, 6, 7, 9, 10} : s[i] \in DigitChars
            THEN LET y == NatOf(SubSeq(s, 1, 4))
                     m == NatOf(SubSeq(s, 6, 7))
                     d == NatOf(SubSeq(s, 9, 10))
                 IN IF y >= 1 /\ m \in 1..12 /\ d \in 1..DaysInMonth(y, m)
                    THEN Timestamp(y, m, d) ELSE NaT
            ELSE NaT

(***************************************************************************)
(* inf_mensal.py: parse_inf_mensal                                         *)
(***************************************************************************)
\* accumulating at the wrong end
PrependFrame(frames, df) == <<df>> \o frames

\* carteira_frames.append(...)
AppendFrame(frames, df) == Append(frames, df)

\* the body of one "try: frames.append(load(...).rename(...)) except Exception"
TryLoad(frames, archive, pattern, mapping) ==
    LET r == load_csv_from_archive(archive, pattern)
    IN IF r.ok THEN AppendFrame(frames, Rename(r.df, mapping)) ELSE frames

RECURSIVE AllColumns(_)
AllColumns(frames) ==
    IF frames = <<>> THEN {} ELSE frames[1].columns \cup AllColumns(Tail(frames))

RECURSIVE AllRows(_)
AllRows(frames) ==
    IF frames = <<>> THEN <<>> ELSE frames[1].rows \o AllRows(Tail(frames))

\* pd.concat(frames, ignore_index=True): the union of the columns, the rows
\* in the order of the frames, NaN where a frame lacks a column
Concat(frames) ==
    LET cols == AllColumns(frames)
        rows == AllRows(frames)
    IN [columns |-> cols,
        rows |-> [i \in 1..Len(rows) |->
                    [origin |-> rows[i].origin,
                     cells |-> [c \in cols |->
                                  IF c \in DOMAIN rows[i].cells
                                  THEN rows[i].cells[c] ELSE NaN]]]]

\* pd.concat(frames, ignore_index=True) if frames else pd.DataFrame()
ConcatOrEmpty(frames) ==
    IF frames # <<>> THEN Concat(frames) ELSE EmptyDataFrame

\* the body of "for df in (carteira, cotistas)": df["cnpj"] and
\* df["data_referencia"] are read, so a table without them is a KeyError
NormalizeFrame(df) ==
    IF IsEmpty(df) THEN [error |-> "none", df |-> df]
    ELSE IF "cnpj" \notin df.columns \/ "data_referencia" \notin df.columns
    THEN [error |-> "KeyError", df |-> df]
    ELSE [error |-> "none",
          df |-> [columns |-> df.columns \cup {"fonte"},
                  rows |-> [i \in 1..Len(df.rows) |->
                     [origin |-> df.rows[i].origin,
                      cells |-> [c \in df.columns \cup {"fonte"} |->
                         CASE c = "cnpj" -> normalize_cnpj(df.rows[i].cells[c])
                           [] c = "data_referencia" ->
                                 ToDatetime(df.rows[i].cells[c])
                           [] c = "fonte" -> Str(<<"C", "V", "M">>)
                           [] OTHER -> df.rows[i].cells[c]]]]]]

\* what follows the loop: the total-failure check, the two concatenations,
\* the normalization pass and the return
ParseTail(cf, kf) ==
    IF cf = <<>> /\ kf = <<>>
    THEN [error |-> "RuntimeError", carteira |-> <<>>, cotistas |-> <<>>]
    ELSE LET c == NormalizeFrame(ConcatOrEmpty(cf))
             k == NormalizeFrame(ConcatOrEmpty(kf))
         IN IF c.error # "none"
            THEN [error |-> c.error, carteira |-> <<>>, cotistas |-> <<>>]
            ELSE IF k.error # "none"
            THEN [error |-> k.error, carteira |-> <<>>, cotistas |-> <<>>]
            ELSE [error |-> "none", carteira |-> c.df, cotistas |-> k.df]

(***************************************************************************)
(* SpecParse: parse_inf_mensal on the URLs of a month window               *)
(***************************************************************************)
ParseDates == {Date(2024, 3, 31), Date(2024, 1, 1)}

InitParse ==
    /\ pc = "loop"
    /\ error = "none"
    /\ today \in ParseDates
    /\ meses_retroativos \in 0..MaxUrls
    /\ gen_year = today.year /\ gen_month = today.month /\ gen_i = 0
    /\ months = month_iterator(today, meses_retroativos)
    /\ mensal_urls = build_monthly_urls(months)
    /\ url_i = 1
    /\ attempts = <<>>
    /\ carteira_frames = <<>> /\ cotistas_frames = <<>>
    /\ carteira_df = <<>> /\ cotistas_df = <<>>
    /\ diario_df = <<>> /\ cnpjs = {} /\ facts = <<>>
    /\ tables = <<>> /\ curated = <<>>

\* a failure that ends the loop
DownloadFailsAndStops ==
    /\ pc = "loop"
    /\ url_i <= Len(mensal_urls)
    /\ attempts' = Append(attempts, [url |-> mensal_urls[url_i],
                                     downloaded |-> FALSE,
                                     carteira |-> "absent",
                                     cotistas |-> "absent"])
    /\ url_i' = Len(mensal_urls) + 1
    /\ UNCHANGED <<pc, error, monthVars, carteira_frames, cotistas_frames>>
    /\ UNCHANGED <<mensalVars, runVars, curatedVars>>

\* download_to_file raises DownloadError: logged, "continue"
DownloadFails ==
    /\ pc = "loop"
    /\ url_i <= Len(mensal_urls)
    /\ attempts' = Append(attempts, [url |-> mensal_urls[url_i],
                                     downloaded |-> FALSE,
                                     carteira |-> "absent",
                                     cotistas |-> "absent"])
    /\ url_i' = url_i + 1
    /\ UNCHANGED <<pc, error, monthVars, carteira_frames, cotistas_frames>>
    /\ UNCHANGED <<mensalVars, runVars, curatedVars>>

\* the archive is downloaded; each of the two kinds is loaded or skipped
LoadArchive ==
    /\ pc = "loop"
    /\ url_i <= Len(mensal_urls)
    /\ \E cs \in CarteiraLayouts \cup {"absent"},
          ks \in CotistasLayouts \cup {"absent"} :
          LET zip == Archive(url_i, cs, ks)
          IN /\ attempts' = Append(attempts, [url |-> mensal_urls[url_i],
                                              downloaded |-> TRUE,
                                              carteira |-> cs,
                                              cotistas |-> ks])
             /\ carteira_frames' =
                   TryLoad(carteira_frames, zip, PatternCarteira, CARTEIRA_COLUMNS)
             /\ cotistas_frames' =
                   TryLoad(cotistas_frames, zip, PatternCotist, COTISTAS_COLUMNS)
    /\ url_i' = url_i + 1
    /\ UNCHANGED <<pc, error, monthVars, mensalVars, runVars, curatedVars>>

\* the loop is over: raise, or return (carteira, cotistas)
ParseFinish ==
    /\ pc = "loop"
    /\ url_i > Len(mensal_urls)
    /\ LET r == ParseTail(carteira_frames, cotistas_frames)
       IN /\ error' = r.error
          /\ pc' = IF r.error = "none" THEN "returned" ELSE "raised"
          /\ carteira_df' = r.carteira
          /\ cotistas_df' = r.cotistas
    /\ UNCHANGED <<monthVars, parseVars, runVars, curatedVars>>

NextParse == DownloadFails \/ LoadArchive \/ ParseFinish

SpecParse == InitParse /\ [][NextParse]_vars

(***************************************************************************)
(* Claims on parse_inf_mensal                                              *)
(***************************************************************************)
Finished == pc \in {"returned", "raised"}

\* the kind's inner file of an attempt was there to be loaded
Loaded(a, kind) == a.downloaded /\ a[kind] # "absent"

\* an attempt whose archive downloaded and parsed: both inner files are
\* there, each with the identifier and the date column
Parsed(a) ==
    /\ a.downloaded
    /\ a.carteira \notin {"absent", "nocnpj1"}
    /\ a.cotistas \notin {"absent", "nocnpj1"}

\* the identities of the rows the archives up to attempt n hold for a kind
RECURSIVE ExpectedOrigins(_, _)
ExpectedOrigins(kind, n) ==
    IF n = 0 THEN <<>>
    ELSE ExpectedOrigins(kind, n - 1)
         \o (IF Loaded(attempts[n], kind)
             THEN [p \in 1..LayoutLen(attempts[n][kind]) |-> <<n, p>>]
             ELSE <<>>)

\* C1: whichever downloads fail with DownloadError, every URL of the list is
\* attempted, in turn; and provided at least one URL downloaded and parsed,
\* the parser does not raise and each returned table holds exactly the rows
\* of the archives that downloaded, and no row of a URL that failed.
C1_DownloadFailuresAreSkipped ==
    /\ pc = "loop" => Len(attempts) = url_i - 1
    /\ Finished => /\ Len(attempts) = Len(mensal_urls)
                   /\ \A i \in 1..Len(attempts) :
                         attempts[i].url = mensal_urls[i]
    /\ (Finished /\ \E i \in 1..Len(attempts) : Parsed(attempts[i])) =>
          /\ pc = "returned"
          /\ error = "none"
          /\ Origins(carteira_df) = ExpectedOrigins("carteira", Len(attempts))
          /\ Origins(cotistas_df) = ExpectedOrigins("cotistas", Len(attempts))
          /\ \A i \in 1..Len(attempts) :
                ~attempts[i].downloaded =>
                   /\ \A j \in 1..Len(carteira_df.rows) :
                         carteira_df.rows[j].origin[1] # i
                   /\ \A j \in 1..Len(cotistas_df.rows) :
                         cotistas_df.rows[j].origin[1] # i

\* three URLs, the download of the second failed, the other two parsed
C1_Witness ==
    /\ pc = "returned"
    /\ Len(attempts) = 3
    /\ Parsed(attempts[1]) /\ ~attempts[2].downloaded /\ Parsed(attempts[3])
    /\ Len(carteira_df.rows) = 4

\* C2: the parser raises the total-failure error exactly when no table kind
\* of any archive was loaded, and whenever one was loaded it returns the
\* pair without raising.
C2_TotalFailureIff ==
    Finished =>
       /\ (pc = "raised" /\ error = "RuntimeError")
             <=> (carteira_frames = <<>> /\ cotistas_frames = <<>>)
       /\ (carteira_frames # <<>> \/ cotistas_frames # <<>>) =>
             (pc = "returned" /\ error = "none")

\* C3: a table kind of a downloaded archive that cannot be extracted or
\* mapped is skipped alone: the parser does not raise for it, the other kind
\* of the archive and the same kind of the other months are in the result;
\* only the total-failure error leaves the parser.
C3_PartialFailuresAreAbsorbed ==
    /\ pc = "raised" => error = "RuntimeError"
    /\ (Finished /\ (carteira_frames # <<>> \/ cotistas_frames # <<>>)) =>
          /\ pc = "returned"
          /\ \A i \in 1..Len(attempts) :
                /\ (Loaded(attempts[i], "carteira")
                      /\ attempts[i].carteira # "nocnpj1") =>
                      \A p \in 1..LayoutLen(attempts[i].carteira) :
                         \E j \in 1..Len(carteira_df.rows) :
                            carteira_df.rows[j].origin = <<i, p>>
                /\ (Loaded(attempts[i], "cotistas")
                      /\ attempts[i].cotistas # "nocnpj1") =>
                      \A p \in 1..LayoutLen(attempts[i].cotistas) :
                         \E j \in 1..Len(cotistas_df.rows) :
                            cotistas_df.rows[j].origin = <<i, p>>

\* C9: the returned tables hold canonical columns only: a source column that
\* is no key of the family's rename map is dropped.
C9_OnlyCanonicalColumns ==
    pc = "returned" =>
       /\ carteira_df.columns \subseteq Range(CARTEIRA_COLUMNS) \cup {"fonte"}
       /\ cotistas_df.columns \subseteq Range(COTISTAS_COLUMNS) \cup {"fonte"}

OriginBefore(a, b) == a[1] < b[1] \/ (a[1] = b[1] /\ a[2] < b[2])

InOrder(rows) ==
    \A a, b \in 1..Len(rows) : a < b => OriginBefore(rows[a].origin, rows[b].origin)

\* C10: the URL list has one URL per month, in the order of the months (most
\* recent first); the loop takes the URLs in that order, one per iteration;
\* and in each accumulator and each returned table the rows are in month
\* order, then in the order of their archive, whichever URLs failed.
C10_MonthThenArchiveOrder ==
    /\ Len(mensal_urls) = Len(months)
    /\ \A i \in 1..Len(mensal_urls) :
          NatOf(mensal_urls[i][3]) = 100 * months[i].year + months[i].month
    /\ \A i \in 1..Len(months) : \A j \in 1..Len(months) :
          i < j => MonthIndex(months[i]) > MonthIndex(months[j])
    /\ \A i \in 1..Len(attempts) : attempts[i].url = mensal_urls[i]
    /\ InOrder(AllRows(carteira_frames))
    /\ InOrder(AllRows(cotistas_frames))
    /\ pc = "returned" => /\ InOrder(carteira_df.rows)
                          /\ InOrder(cotistas_df.rows)
                          /\ Origins(carteira_df) = Origins(Concat(carteira_frames))

\* rows of the first and of the third month, around a month that failed
C10_Witness ==
    /\ pc = "returned"
    /\ Len(attempts) = 3
    /\ ~attempts[2].downloaded
    /\ \E a, b \in 1..Len(carteira_df.rows) :
          /\ a < b
          /\ carteira_df.rows[a].origin[1] = 1
          /\ carteira_df.rows[b].origin[1] = 3

(***************************************************************************)
(* pipeline.py: CVMPipeline.run from the fund filter on (lines 45-66)      *)
(***************************************************************************)
NormA == normalize_cnpj(Str(CnpjA)).val
NormB == normalize_cnpj(Str(CnpjB)).val
NormC == normalize_cnpj(Str(CnpjC)).val

\* Series.isin(cnpjs) on one cell: None and NaN are in no set of strings
IsIn(cell, ids) == cell.tag = "str" /\ cell.val \in ids

\* a filter that keeps the complement
FundFilterComplement(df, ids) ==
    [columns |-> df.columns,
     rows |-> SelectRows(df.rows,
                 [i \in 1..Len(df.rows) |-> ~IsIn(df.rows[i].cells["cnpj"], ids)])]

\* df[df["cnpj"].isin(cnpjs)], for a df that has the column
FundFilter(df, ids) ==
    [columns |-> df.columns,
     rows |-> SelectRows(df.rows,
                 [i \in 1..Len(df.rows) |-> IsIn(df.rows[i].cells["cnpj"], ids)])]

\* "if not df.empty: df = df[df["cnpj"].isin(cnpjs)]"
FilterUnlessEmpty(df, ids) == IF IsEmpty(df) THEN df ELSE FundFilter(df, ids)

\* what parse_inf_diario returned: the daily quota family has one table kind,
\* so the table is the concatenation of at least one frame; it is normalized
\* unless it has no rows, and then it has the columns its inner files had
DiarioColumns ==
    {"cnpj", "data_cotacao", "valor_cota", "patrimonio_liquido", "fonte"}

DiarioRow(p, id, day, quota, worth) ==
    [origin |-> <<1, p>>,
     cells |-> [c \in DiarioColumns |->
                  CASE c = "cnpj" -> Str(id)
                    [] c = "data_cotacao" -> Timestamp(2024, 3, day)
                    [] c = "valor_cota" -> Num(quota)
                    [] c = "patrimonio_liquido" -> Num(worth)
                    [] c = "fonte" -> Str(<<"C", "V", "M">>)]]

DiarioTable(ids) ==
    [columns |-> DiarioColumns,
     rows |-> [p \in 1..Len(ids) |-> DiarioRow(p, ids[p], 1, 10 * p, 100 * p)]]

\* header-only inner files whose identifier column has another name
DiarioHeaderOnly ==
    [columns |-> {"CNPJ_FUNDO_CLASSE", "data_cotacao", "valor_cota",
                  "patrimonio_liquido"},
     rows |-> <<>>]

DiarioResults ==
    {DiarioTable(<<>>), DiarioTable(<<NormA, NormB, NormC>>),
     DiarioTable(<<NormB, NormA, NormB>>), DiarioHeaderOnly}

\* the accumulators parse_inf_mensal can end its loop with
FrameLists(kind, layouts, mapping, most) ==
    UNION {{[i \in 1..n |-> Rename(Csv(i, kind, ls[i]), mapping)] :
               ls \in [1..n -> layouts]} : n \in 0..most}

\* the pairs parse_inf_mensal can return from at most so many archives
MensalResults(most) ==
    {r \in {ParseTail(cf, kf) :
               cf \in FrameLists("carteira", CarteiraLayouts, CARTEIRA_COLUMNS,
                                 most),
               kf \in FrameLists("cotistas", CotistasLayouts, COTISTAS_COLUMNS,
                                 most)} :
        r.error = "none"}

FactNames == {"fato_cota_diaria", "fato_carteira_mensal", "fato_cotistas_mensal"}

InitRun ==
    /\ pc = "filter_diario"
    /\ error = "none"
    /\ today = Date(2024, 3, 31)
    /\ meses_retroativos = 0
    /\ gen_year = 0 /\ gen_month = 0 /\ gen_i = 0
    /\ months = <<>> /\ mensal_urls = <<>>
    /\ url_i = 0 /\ attempts = <<>>
    /\ carteira_frames = <<>> /\ cotistas_frames = <<>>
    /\ diario_df \in DiarioResults
    /\ \E r \in MensalResults(MaxFrames) :
          /\ carteira_df = r.carteira
          /\ cotistas_df = r.cotistas
    /\ cnpjs \in SUBSET {NormA, NormB, NormC}
    /\ facts = [fato_cota_diaria |-> diario_df,
                fato_carteira_mensal |-> carteira_df,
                fato_cotistas_mensal |-> cotistas_df]
    /\ tables = <<>> /\ curated = <<>>

\* line 47: diario_df = diario_df[diario_df["cnpj"].isin(cnpjs)]
FilterDiario ==
    /\ pc = "filter_diario"
    /\ IF "cnpj" \in facts.fato_cota_diaria.columns
       THEN /\ facts' = [facts EXCEPT !.fato_cota_diaria =
                            FundFilter(facts.fato_cota_diaria, cnpjs)]
            /\ pc' = "filter_carteira"
            /\ error' = error
       ELSE /\ error' = "KeyError"
            /\ pc' = "raised"
            /\ facts' = facts
    /\ UNCHANGED <<monthVars, parseVars, mensalVars, diario_df, cnpjs,
                   curatedVars>>

\* lines 48-49
FilterCarteira ==
    /\ pc = "filter_carteira"
    /\ facts' = [facts EXCEPT !.fato_carteira_mensal =
                    FilterUnlessEmpty(facts.fato_carteira_mensal, cnpjs)]
    /\ pc' = "filter_cotistas"
    /\ UNCHANGED <<error, monthVars, parseVars, mensalVars, diario_df, cnpjs,
                   curatedVars>>

\* lines 50-51
FilterCotistas ==
    /\ pc = "filter_cotistas"
    /\ facts' = [facts EXCEPT !.fato_cotistas_mensal =
                    FilterUnlessEmpty(facts.fato_cotistas_mensal, cnpjs)]
    /\ pc' = "return"
    /\ UNCHANGED <<error, monthVars, parseVars, mensalVars, diario_df, cnpjs,
                   curatedVars>>

\* lines 60-66: the fact tables are returned under their names
ReturnFacts ==
    /\ pc = "return"
    /\ tables' = facts
    /\ pc' = "done"
    /\ UNCHANGED <<error, monthVars, parseVars, mensalVars, runVars, curated>>

NextRun == FilterDiario \/ FilterCarteira \/ FilterCotistas \/ ReturnFacts

SpecRun == InitRun /\ [][NextRun]_vars

(***************************************************************************)
(* Claims on the fund filter                                               *)
(***************************************************************************)
\* the table a fact name was bound to when the parsers returned
Parsed0(name) ==
    CASE name = "fato_cota_diaria" -> diario_df
      [] name = "fato_carteira_mensal" -> carteira_df
      [] name = "fato_cotistas_mensal" -> cotistas_df

\* the filter statement of a fact name has run
Past(name) ==
    CASE name = "fato_cota_diaria" ->
            pc \in {"filter_carteira", "filter_cotistas", "return", "done"}
      [] name = "fato_carteira_mensal" ->
            pc \in {"filter_cotistas", "return", "done"}
      [] name = "fato_cotistas_mensal" -> pc \in {"return", "done"}

Monitored(row) == row.cells["cnpj"].tag = "str" /\ row.cells["cnpj"].val \in cnpjs

\* C6: the table the filter leaves holds exactly the rows of its input whose
\* cnpj is in the monitored set: none outside the set is kept, none inside
\* it is lost, the kept rows are in their original relative order and each
\* is the input row, cell by cell; and every row of the three returned
\* tables has a monitored cnpj.
C6_FundFilterExact ==
    /\ \A name \in FactNames :
          (Past(name) /\ ~IsEmpty(Parsed0(name))) =>
             LET in == Parsed0(name).rows
                 out == facts[name].rows
             IN /\ facts[name].columns = Parsed0(name).columns
                /\ \A j \in 1..Len(out) :
                      /\ Monitored(out[j])
                      /\ \E i \in 1..Len(in) : in[i] = out[j]
                /\ \A i \in 1..Len(in) :
                      Monitored(in[i]) => \E j \in 1..Len(out) : out[j] = in[i]
                /\ \A a, b \in 1..Len(out) : a < b =>
                      \E i, k \in 1..Len(in) :
                         i < k /\ in[i] = out[a] /\ in[k] = out[b]
                /\ Len(out) <= Len(in)
    /\ pc = "done" =>
          \A name \in FactNames :
             \A j \in 1..Len(tables[name].rows) : Monitored(tables[name].rows[j])

\* identifiers A, B, C filtered by the set {A, C}, and a portfolio row dropped
C6_Witness ==
    /\ pc = "done"
    /\ cnpjs = {NormA, NormC}
    /\ Len(diario_df.rows) = 3
    /\ Len(tables.fato_cota_diaria.rows) = 2
    /\ tables.fato_cota_diaria.rows[1].cells["cnpj"] = Str(NormA)
    /\ tables.fato_cota_diaria.rows[2].cells["cnpj"] = Str(NormC)
    /\ Len(tables.fato_carteira_mensal.rows) > 0
    /\ Len(tables.fato_carteira_mensal.rows) < Len(carteira_df.rows)

\* C7: the filter statement of each of the three fact tables leaves an empty
\* table as it is and raises nothing.
C7_EmptyTablesPassThrough ==
    /\ pc = "raised" => ~IsEmpty(diario_df)
    /\ \A name \in FactNames :
          (Past(name) /\ IsEmpty(Parsed0(name))) => facts[name] = Parsed0(name)

(***************************************************************************)
(* run_pipeline.py: build_curated_tables                                   *)
(***************************************************************************)
\* tables.get(name): the table, or None
Some(df) == [present |-> TRUE, df |-> df]
Absent == [present |-> FALSE, df |-> EmptyDataFrame]

DimColumns == {"cnpj", "categoria_cvm", "gestora", "grupo_looker"}

\* the attributes the configuration gives the three funds; a fund without a
\* reporting group has None there
FundAttribute(id, c) ==
    CASE c = "cnpj" -> Str(id)
      [] c = "categoria_cvm" ->
            IF id = NormC THEN Str(<<"c", "2">>) ELSE Str(<<"c", "1">>)
      [] c = "gestora" ->
            IF id = NormB THEN Str(<<"g", "2">>) ELSE Str(<<"g", "1">>)
      [] c = "grupo_looker" -> IF id = NormB THEN NaN ELSE Str(<<"x">>)

\* dimensions.build_dim_fundo: one row per configured fund
DimFundo(ids) ==
    [columns |-> DimColumns,
     rows |-> [p \in 1..Len(ids) |->
                 [origin |-> <<0, p>>,
                  cells |-> [c \in DimColumns |-> FundAttribute(ids[p], c)]]]]

DimResults ==
    {DimFundo(<<>>), DimFundo(<<NormA>>), DimFundo(<<NormA, NormB>>),
     DimFundo(<<NormB, NormC, NormA>>)}

\* the daily quota tables handed to build_curated_tables
FactRowChoices ==
    {[id |-> id, day |-> day, quota |-> m[1], worth |-> m[2]] :
        id \in {NormA, NormB, NormC}, day \in {1, 2},
        m \in {<<10, 100>>, <<20, 300>>}}

FactTables(most) ==
    UNION {{[columns |-> DiarioColumns,
             rows |-> [p \in 1..n |->
                         DiarioRow(p, ch[p].id, ch[p].day, ch[p].quota,
                                   ch[p].worth)]] :
               ch \in [1..n -> FactRowChoices]} : n \in 0..most}

\* one fact row joined with one dimension row, or with none
Joined(left, right, columns, matched) ==
    [origin |-> left.origin,
     cells |-> [c \in columns |->
                  IF c \in DOMAIN left.cells THEN left.cells[c]
                  ELSE IF matched THEN right.cells[c] ELSE NaN]]

RECURSIVE MatchesOf(_, _, _)
MatchesOf(left, rights, columns) ==
    IF rights = <<>> THEN <<>>
    ELSE (IF rights[1].cells["cnpj"] = left.cells["cnpj"]
          THEN <<Joined(left, rights[1], columns, TRUE)>> ELSE <<>>)
         \o MatchesOf(left, Tail(rights), columns)

RECURSIVE InnerRows(_, _, _)
InnerRows(lefts, rights, columns) ==
    IF lefts = <<>> THEN <<>>
    ELSE MatchesOf(lefts[1], rights, columns)
         \o InnerRows(Tail(lefts), rights, columns)

\* how="inner": a fact row without a dimension entry is dropped
MergeInner(fato, dim) ==
    [columns |-> fato.columns \cup dim.columns,
     rows |-> InnerRows(fato.rows, dim.rows, fato.columns \cup dim.columns)]

RECURSIVE LeftRows(_, _, _)
LeftRows(lefts, rights, columns) ==
    IF lefts = <<>> THEN <<>>
    ELSE (IF MatchesOf(lefts[1], rights, columns) = <<>>
          THEN <<Joined(lefts[1], lefts[1], columns, FALSE)>>
          ELSE MatchesOf(lefts[1], rights, columns))
         \o LeftRows(Tail(lefts), rights, columns)

\* fato.merge(dim_fundo, on="cnpj", how="left"): each fact row once per
\* dimension row with its cnpj, or once with NaN attributes when there is none
Merge(fato, dim) ==
    [columns |-> fato.columns \cup dim.columns,
     rows |-> LeftRows(fato.rows, dim.rows, fato.columns \cup dim.columns)]

RECURSIVE SumColumn(_, _)
SumColumn(rows, c) ==
    IF rows = <<>> THEN 0 ELSE rows[1].cells[c].val + SumColumn(Tail(rows), c)

\* the mean of n numbers, kept as the fraction total/n
Mean(rows, c) == [num |-> SumColumn(rows, c), den |-> Len(rows)]

\* enriched.groupby(["data_cotacao", attribute], dropna=False)
\*     .agg({"valor_cota": "mean", "patrimonio_liquido": "sum"}).reset_index()
\* as the set of its rows, one per key that occurs (a NaN key included)
GroupBy(enriched, attribute) ==
    LET key(r) == <<r.cells["data_cotacao"], r.cells[attribute]>>
        keys == {key(enriched.rows[i]) : i \in 1..Len(enriched.rows)}
        members(k) == SelectRows(enriched.rows,
                         [i \in 1..Len(enriched.rows) |-> key(enriched.rows[i]) = k])
    IN {[data_cotacao |-> k[1],
         group |-> k[2],
         valor_cota |-> Mean(members(k), "valor_cota"),
         patrimonio_liquido |-> SumColumn(members(k), "patrimonio_liquido")] :
           k \in keys}

CuratedNames ==
    {"curated_cotas_por_categoria", "curated_cotas_por_gestora",
     "curated_cotas_por_grupo_looker"}

GroupingOf(name) ==
    CASE name = "curated_cotas_por_categoria" -> "categoria_cvm"
      [] name = "curated_cotas_por_gestora" -> "gestora"
      [] name = "curated_cotas_por_grupo_looker" -> "grupo_looker"

build_curated_tables(t) ==
    IF t.fato_cota_diaria.present /\ t.dim_fundo.present
          /\ ~IsEmpty(t.fato_cota_diaria.df)
    THEN LET enriched == Merge(t.fato_cota_diaria.df, t.dim_fundo.df)
         IN [name \in CuratedNames |-> GroupBy(enriched, GroupingOf(name))]
    ELSE [name \in {} |-> {}]

(***************************************************************************)
(* SpecCurated                                                             *)
(***************************************************************************)
InitCurated ==
    /\ pc = "curate"
    /\ error = "none"
    /\ today = Date(2024, 3, 31)
    /\ meses_retroativos = 0
    /\ gen_year = 0 /\ gen_month = 0 /\ gen_i = 0
    /\ months = <<>> /\ mensal_urls = <<>>
    /\ url_i = 0 /\ attempts = <<>>
    /\ carteira_frames = <<>> /\ cotistas_frames = <<>>
    /\ carteira_df = <<>> /\ cotistas_df = <<>>
    /\ diario_df = <<>> /\ cnpjs = {} /\ facts = <<>>
    /\ tables \in [fato_cota_diaria : {Some(f) : f \in FactTables(MaxFactRows)} \cup {Absent},
                   dim_fundo : {Some(d) : d \in DimResults} \cup {Absent}]
    /\ curated = <<>>

BuildCuratedTables ==
    /\ pc = "curate"
    /\ curated' = build_curated_tables(tables)
    /\ pc' = "done"
    /\ UNCHANGED <<error, monthVars, parseVars, mensalVars, runVars, tables>>

NextCurated == BuildCuratedTables

SpecCurated == InitCurated /\ [][NextCurated]_vars

(***************************************************************************)
(* Claims on the curated aggregates                                        *)
(***************************************************************************)
RECURSIVE SumWorth(_)
SumWorth(groups) ==
    IF groups = {} THEN 0
    ELSE LET g == CHOOSE g \in groups : TRUE
         IN g.patrimonio_liquido + SumWorth(groups \ {g})

RECURSIVE SumCount(_)
SumCount(groups) ==
    IF groups = {} THEN 0
    ELSE LET g == CHOOSE g \in groups : TRUE
         IN g.valor_cota.den + SumCount(groups \ {g})

RECURSIVE SumOf(_, _, _)
SumOf(rows, idx, c) ==
    IF idx = {} THEN 0
    ELSE LET i == CHOOSE i \in idx : TRUE
         IN rows[i].cells[c].val + SumOf(rows, idx \ {i}, c)

\* the attribute the dimension gives a fact row, NaN when it has no entry
AttributeOf(row, dim, attribute) ==
    IF \E p \in 1..Len(dim.rows) : dim.rows[p].cells["cnpj"] = row.cells["cnpj"]
    THEN dim.rows[CHOOSE p \in 1..Len(dim.rows) :
                     dim.rows[p].cells["cnpj"] = row.cells["cnpj"]].cells[attribute]
    ELSE NaN

\* C8: with a non-empty fact table and a dimension table, in each of the
\* three curated tables every fact row is a member of exactly one (date,
\* attribute) group, the one of its date and of its fund's attribute, or of
\* "no value" when the fund has no dimension entry; a group's net worth is
\* the sum over its members and its quota the mean over them; so the groups'
\* net worths add up to the fact table's total and their sizes to its number
\* of rows; quotas 10 and 20 with net worths 100 and 300 on one date and in
\* one category give mean 15 and sum 400.
C8_EveryRowInOneGroupOnce ==
    (pc = "done" /\ tables.fato_cota_diaria.present /\ tables.dim_fundo.present
        /\ ~IsEmpty(tables.fato_cota_diaria.df)) =>
       LET rows == tables.fato_cota_diaria.df.rows
           dim == tables.dim_fundo.df
           all == 1..Len(rows)
       IN /\ DOMAIN curated = CuratedNames
          /\ \A name \in CuratedNames :
                LET groups == curated[name]
                    at == GroupingOf(name)
                    inGroup(g) ==
                       {i \in all :
                           /\ rows[i].cells["data_cotacao"] = g.data_cotacao
                           /\ AttributeOf(rows[i], dim, at) = g.group}
                IN /\ \A i \in all :
                         Cardinality({g \in groups : i \in inGroup(g)}) = 1
                   /\ \A g \in groups :
                         /\ inGroup(g) # {}
                         /\ g.patrimonio_liquido =
                               SumOf(rows, inGroup(g), "patrimonio_liquido")
                         /\ g.valor_cota.num = SumOf(rows, inGroup(g), "valor_cota")
                         /\ g.valor_cota.den = Cardinality(inGroup(g))
                   /\ SumWorth(groups) = SumOf(rows, all, "patrimonio_liquido")
                   /\ SumCount(groups) = Len(rows)
          /\ (/\ Len(rows) = 2
              /\ rows[1].cells["data_cotacao"] = rows[2].cells["data_cotacao"]
              /\ AttributeOf(rows[1], dim, "categoria_cvm")
                    = AttributeOf(rows[2], dim, "categoria_cvm")
              /\ {rows[1].cells["valor_cota"].val,
                  rows[2].cells["valor_cota"].val} = {10, 20}
              /\ {rows[1].cells["patrimonio_liquido"].val,
                  rows[2].cells["patrimonio_liquido"].val} = {100, 300})
             => \E g \in curated["curated_cotas_por_categoria"] :
                   /\ curated["curated_cotas_por_categoria"] = {g}
                   /\ g.patrimonio_liquido = 400
                   /\ g.valor_cota.num = 15 * g.valor_cota.den

\* the example of the two quota rows, and next to it a table where a row
\* without a dimension entry sits in the group of "no value"
C8_Witness ==
    /\ pc = "done"
    /\ DOMAIN curated = CuratedNames
    /\ Len(tables.fato_cota_diaria.df.rows) = 2
    /\ Len(tables.dim_fundo.df.rows) = 2
    /\ tables.fato_cota_diaria.df.rows[1].cells["cnpj"] = Str(NormA)
    /\ tables.fato_cota_diaria.df.rows[2].cells["cnpj"] = Str(NormC)
    /\ \E g \in curated["curated_cotas_por_categoria"] :
          g.group = NaN /\ g.patrimonio_liquido > 0
    /\ \E g \in curated["curated_cotas_por_categoria"] :
          g.group = Str(<<"c", "1">>)

(***************************************************************************)
(* The four parts together: their positions are disjoint, so each          *)
(* behaviour of Spec is a behaviour of one of them.                        *)
(***************************************************************************)
Init == InitMonths \/ InitParse \/ InitRun \/ InitCurated

Next == NextMonths \/ NextParse \/ NextRun \/ NextCurated

Spec == Init /\ [][Next]_vars

====
